---- MODULE Spec2Model ----
(***************************************************************************)
(* Model of the activity-intensity classifier pipeline:                    *)
(*   ml/src/features.py   window_indices, extract_features,                *)
(*                        extract_single_window                            *)
(*   ml/src/train.py      the training script (config, artifacts)          *)
(*   backend/app/main.py  artifact loading, _calibrate_to_wisdm, predict   *)
(*                                                                         *)
(* Numbers.  The arrays of the program hold IEEE-754 binary64 numbers and  *)
(* so do the arrays of the model: a float64 is a record [s, m, e] of value *)
(* (-1)^s * m * 2^e, with m a natural of exactly 53 bits (or zero) written *)
(* as a sequence of base-2^14 limbs, lowest first.  e = F64Special marks   *)
(* the infinities (m zero) and NaN.  Sums, products, quotients and square  *)
(* roots are rounded to nearest, ties to even, and numpy's reductions are  *)
(* taken in numpy's order (pairwise summation, the two-sided lerp of       *)
(* np.percentile).  Overflow, subnormals and the sign of zero do not occur *)
(* for the magnitudes of the model and are not represented.                *)
(*                                                                         *)
(* Inputs.  The rows of a recording and the samples of a request are       *)
(* decimal numbers with two places, written in hundredths (9.81 is 981);   *)
(* NaN, PosInf and NegInf stand for the three non-finite readings.         *)
(* Float64(v) is the float64 the program reads for v, the double nearest   *)
(* to v / 100.  The state records what the program computes rounded to the *)
(* hundredth (Hundredths).  The configuration (win_sec, overlap) is in     *)
(* quarters, so that every product the code forms from it is exact in      *)
(* binary floating point as well.                                          *)
(***************************************************************************)
EXTENDS Integers, Sequences, FiniteSets, TLC

VARIABLES
    wi,     \* window_indices call: its arguments and what it has yielded
    tr,     \* the training script: position, config, frame, X, y, fitted objects
    files,  \* the artifact files written by training: path -> payload
    svc,    \* the inference service's module-level state after start-up
    http    \* the predict request in flight and the handler's trace and response

vars == <<wi, tr, files, svc, http>>

-----------------------------------------------------------------------------
(* Bounds of the model *)

MaxN == 25          \* window_indices: largest sample count tried
MaxWin == 10        \* window_indices: largest window length tried
MaxStep == 5        \* window_indices: largest step tried
MaxRows == 2        \* training: longest frame drawn from RowSet
MaxReq == 3         \* service: longest request drawn from SampleSet
LongRows == 16      \* training: length of the long two-class frames

-----------------------------------------------------------------------------
(* Integers *)

Max(a, b) == IF a >= b THEN a ELSE b
Min(a, b) == IF a <= b THEN a ELSE b
Abs(a) == IF a < 0 THEN -a ELSE a

\* int(a / b): truncation toward zero, as Python's int() of a float (b > 0)
TruncDiv(a, b) == IF a >= 0 THEN a \div b ELSE -((-a) \div b)

\* round(a / b): Python's round(), nearest with ties to even (b > 0)
PyRound(a, b) ==
    LET f == a \div b
        r2 == 2 * (a - f * b)
    IN  IF r2 < b THEN f
        ELSE IF r2 > b THEN f + 1
        ELSE IF f % 2 = 0 THEN f ELSE f + 1

RECURSIVE SumRange(_, _, _)
\* s[lo] + ... + s[hi], halving the range
SumRange(s, lo, hi) ==
    IF lo > hi THEN 0
    ELSE IF lo = hi THEN s[lo]
    ELSE LET mid == (lo + hi) \div 2
         IN  SumRange(s, lo, mid) + SumRange(s, mid + 1, hi)

Sum(s) == SumRange(s, 1, Len(s))

\* The sequence a function over 1..n is, its elements computed once
NSeq(f) == f \o <<>>

-----------------------------------------------------------------------------
(* Naturals of any size, for the mantissas of float64 arithmetic: sequences  *)
(* of limbs below Limb, lowest first, without leading zero limbs (<<>> is 0) *)

Limb == 16384

\* the i-th limb of a, from 1; 0 beyond its length
NLimb(a, i) == IF 1 <= i /\ i <= Len(a) THEN a[i] ELSE 0

\* the index of the highest limb of a that is not 0
NTop(a) == CHOOSE i \in 0..Len(a) : (i = 0 \/ a[i] # 0) /\ \A j \in (i + 1)..Len(a) : a[j] = 0

\* a without leading zero limbs
NTrim(a) == SubSeq(a, 1, NTop(a))

\* the limbs of an integer 0 <= n < 2^31
NOf(n) == NTrim(<<n % Limb, (n \div Limb) % Limb, n \div (Limb * Limb)>>)

\* One carry pass over columns below 2^31.
NPass(c) == NSeq([i \in 1..(Len(c) + 1) |-> (NLimb(c, i) % Limb) + (NLimb(c, i - 1) \div Limb)])

\* The carry into column i of columns that are at most 2 * Limb - 2.
NCarryIn(c, i) ==
    IF \E j \in 1..(i - 1) : c[j] >= Limb /\ \A k \in (j + 1)..(i - 1) : c[k] >= Limb - 1
    THEN 1 ELSE 0

\* the limbs of columns that are at most 2 * Limb - 2
NRipple(c) == NTrim(NSeq([i \in 1..(Len(c) + 1) |-> (NLimb(c, i) + NCarryIn(c, i)) % Limb]))

\* a + b
NAdd(a, b) ==
    IF a = <<>> /\ b = <<>> THEN <<>>
    ELSE NRipple(NSeq([i \in 1..Max(Len(a), Len(b)) |-> NLimb(a, i) + NLimb(b, i)]))

\* The borrow out of the columns below i of a column-wise difference.
NBorrowIn(x, i) ==
    IF \E j \in 1..(i - 1) : x[j] < 0 /\ \A k \in (j + 1)..(i - 1) : x[k] <= 0
    THEN 1 ELSE 0

\* the limbs of a column-wise difference that is not negative
NDiffs(x) == NTrim(NSeq([i \in 1..Len(x) |-> (x[i] - NBorrowIn(x, i)) % Limb]))

\* a - b for a >= b
NSub(a, b) ==
    IF a = b THEN <<>> ELSE NDiffs(NSeq([i \in 1..Len(a) |-> a[i] - NLimb(b, i)]))

\* a < b
NLess(a, b) ==
    IF Len(a) # Len(b) THEN Len(a) < Len(b)
    ELSE \E i \in 1..Len(a) : a[i] < b[i] /\ \A j \in (i + 1)..Len(a) : a[j] = b[j]

\* a * k for 0 <= k <= Limb
NMulSmall(a, k) ==
    IF a = <<>> THEN <<>> ELSE NRipple(NPass(NSeq([i \in 1..Len(a) |-> a[i] * k])))

\* a * b for factors of at most four limbs
NMul(a, b) ==
    IF a = <<>> \/ b = <<>> THEN <<>>
    ELSE NRipple(NPass(NPass(NSeq([k \in 1..(Len(a) + Len(b)) |->
             NLimb(a, 1) * NLimb(b, k) + NLimb(a, 2) * NLimb(b, k - 1)
             + NLimb(a, 3) * NLimb(b, k - 2) + NLimb(a, 4) * NLimb(b, k - 3)]))))

\* the number of bits of a limb
LimbBits(v) == IF v = 0 THEN 0 ELSE CHOOSE k \in 1..14 : 2^(k - 1) <= v /\ v < 2^k

\* the number of bits of a
NBits(a) == IF a = <<>> THEN 0 ELSE 14 * (Len(a) - 1) + LimbBits(a[Len(a)])

\* a * 2^s
NShl(a, s) ==
    IF a = <<>> \/ s = 0 THEN a
    ELSE IF s % 14 = 0 THEN [i \in 1..(s \div 14) |-> 0] \o a
    ELSE [i \in 1..(s \div 14) |-> 0] \o NMulSmall(a, 2^(s % 14))

\* a \div 2^(14 * j + t), 0 <= t < 14
NShrBy(a, j, t) ==
    NTrim(NSeq([i \in 1..(Len(a) - j) |->
        (a[i + j] \div 2^t) + (NLimb(a, i + j + 1) % 2^t) * 2^(14 - t)]))

\* a \div 2^s
NShr(a, s) == IF s \div 14 >= Len(a) THEN <<>> ELSE NShrBy(a, s \div 14, s % 14)

\* The remainder of the limbs i.. of a by d, 1 <= d <= Limb
RECURSIVE NRemFrom(_, _, _)
NRemFrom(a, d, i) == IF i > Len(a) THEN 0 ELSE (NRemFrom(a, d, i + 1) * Limb + a[i]) % d

\* a \div d and whether a remainder is left, 1 <= d <= Limb
NDivSmall(a, d) ==
    [q |-> NTrim(NSeq([i \in 1..Len(a) |-> (NRemFrom(a, d, i + 1) * Limb + a[i]) \div d])),
     r |-> NRemFrom(a, d, 1)]

\* The digit k near its estimate with k * d <= cur < (k + 1) * d
NQuotNear(cur, d, est) ==
    est - (CHOOSE k \in 0..2 :
               ~NLess(cur, NMulSmall(d, est - k)) /\ NLess(cur, NMulSmall(d, est - k + 1)))

\* One quotient digit of cur by a divisor d of four limbs whose top limb is
\* at least Limb / 2, for cur < d * Limb
NQuotDigit(cur, d) ==
    NQuotNear(cur, d, Min(Limb - 1, (NLimb(cur, 5) * Limb + NLimb(cur, 4)) \div d[4]))

RECURSIVE NDivDigits(_, _, _, _)
NDivTake(cur, d, i, q, k) == NDivDigits(NSub(cur, NMulSmall(d, k)), d, i - 1, <<k>> \o q)

\* i more digits of the quotient q (little-endian) with remainder r < d
NDivDigits(r, d, i, q) ==
    IF i = 0 THEN [q |-> NTrim(q), r |-> r]
    ELSE IF r = <<>> THEN [q |-> NTrim([j \in 1..i |-> 0] \o q), r |-> r]
    ELSE NDivTake(<<0>> \o r, d, i, q, NQuotDigit(<<0>> \o r, d))

NDivFirst(a, d, k) == NDivDigits(IF k = 1 THEN NSub(a, d) ELSE a, d, 4, <<k>>)

\* (a * Limb^4) \div d with its remainder, for a and d of 56 bits
NDiv(a, d) == NDivFirst(a, d, IF NLess(a, d) THEN 0 ELSE 1)

\* The largest r + w * d, d in 0..15, whose square is at most v
ISqrtStep(v, r, w) ==
    r + w * (CHOOSE d \in 0..15 : (r + w * d) * (r + w * d) <= v
                                   /\ (d = 15 \/ v < (r + w * (d + 1)) * (r + w * (d + 1))))

\* floor(sqrt(v)) for 0 <= v < 2^28
ISqrt28(v) == ISqrtStep(v, ISqrtStep(v, ISqrtStep(v, ISqrtStep(v, 0, 1024), 64), 4), 1)

\* (2 * r * Limb + c) * c
NRootTerm(r, c) == NMulSmall(NTrim(<<c>> \o NMulSmall(r, 2)), c)

\* the digit c at most six below its estimate with (2 r Limb + c) c <= cur
NRootNear(cur, r, est) ==
    est - (CHOOSE k \in 0..6 :
               /\ ~NLess(cur, NRootTerm(r, est - k))
               /\ (est - k = Limb - 1 \/ NLess(cur, NRootTerm(r, est - k + 1))))

\* The next digit of the root r (top limb at least Limb / 2) for cur
NRootDigit(cur, r) ==
    NRootNear(cur, r,
        Min(Limb - 1, (NLimb(cur, Len(r) + 3) * Limb * Limb + NLimb(cur, Len(r) + 2) * Limb
                       + NLimb(cur, Len(r) + 1)) \div (2 * r[Len(r)])))

\* the digit c taken: it joins the root and its term leaves cur
RECURSIVE NRootPairs(_, _, _, _)
NRootTake(a, p, r, cur, c) == NRootPairs(a, p - 1, <<c>> \o r, NSub(cur, NRootTerm(r, c)))

\* the next digit found for cur and taken
NRootCur(a, p, r, cur) == NRootTake(a, p, r, cur, NRootDigit(cur, r))

\* The root digits for the limb pairs p, p-1, .. 1 of a
NRootPairs(a, p, r, rem) ==
    IF p = 0 THEN [root |-> r, rem |-> rem]
    ELSE IF r = <<>> THEN NRootTake(a, p, r, <<a[2 * p - 1], a[2 * p]>>,
                                    ISqrt28(a[2 * p] * Limb + a[2 * p - 1]))
    ELSE NRootCur(a, p, r, NTrim(<<a[2 * p - 1], a[2 * p]>> \o rem))

\* floor(sqrt(a)) and the remainder, for a of eight limbs with a[8] >= Limb / 4
NSqrt(a) == NRootPairs(a, 4, <<>>, <<>>)

\* the integer of at most three limbs
NToInt(a) == NLimb(a, 1) + Limb * NLimb(a, 2) + Limb * Limb * NLimb(a, 3)

-----------------------------------------------------------------------------
(* IEEE-754 binary64 *)

F64Zero == [s |-> 0, m |-> <<>>, e |-> 0]

\* the exponent field that marks the infinities and NaN
F64Special == 2047

F64NaN == [s |-> 0, m |-> <<1>>, e |-> F64Special]

\* +inf for s = 0, -inf for s = 1
F64Inf(s) == [s |-> s, m |-> <<>>, e |-> F64Special]

IsNaN64(a) == a.e = F64Special /\ a.m # <<>>
IsInf64(a) == a.e = F64Special /\ a.m = <<>>
IsFinite64(a) == a.e # F64Special
IsZero64(a) == a.e = 0 /\ a.m = <<>>

\* a mantissa of 54 bits after a carry, brought back to 53
F64Pack(s, q, e) ==
    IF NBits(q) = 54 THEN [s |-> s, m |-> NShr(q, 1), e |-> e + 1] ELSE [s |-> s, m |-> q, e |-> e]

\* r2 holds 54 bits: the 53 kept and the guard bit; rest says whether any
\* lower bit is set.  Round to nearest, ties to even.
F64Finish(s, r2, e, rest) ==
    IF r2[1] % 2 = 1 /\ (rest \/ (r2[1] \div 2) % 2 = 1)
    THEN F64Pack(s, NAdd(NShr(r2, 1), <<1>>), e)
    ELSE [s |-> s, m |-> NShr(r2, 1), e |-> e]

\* m of more than 53 bits cut to its top 54 bits r2 and rounded
F64Cut(s, m, e, sticky, bits, r2) ==
    F64Finish(s, r2, e + bits - 53, sticky \/ NShl(r2, bits - 54) # m)

\* m of the given number of bits cut or stretched to 53 bits
F64Fit(s, m, e, sticky, bits) ==
    IF bits <= 53 THEN [s |-> s, m |-> NShl(m, 53 - bits), e |-> e - (53 - bits)]
    ELSE F64Cut(s, m, e, sticky, bits, NShr(m, bits - 54))

\* the double nearest to (-1)^s * (m + f) * 2^e, 0 <= f < 1, sticky = (f > 0)
F64Round(s, m, e, sticky) == IF m = <<>> THEN F64Zero ELSE F64Fit(s, m, e, sticky, NBits(m))

\* the double of a quotient by a small divisor and its remainder
F64Quot(s, res, e) == F64Round(s, res.q, e, res.r # 0)

\* the double nearest to k / d, |k| < 2^31, 1 <= d <= Limb: what float()
\* makes of a decimal literal
F64OfRatio(k, d) ==
    F64Quot(IF k < 0 THEN 1 ELSE 0, NDivSmall(NShl(NOf(IF k < 0 THEN -k ELSE k), 70), d), -70)

\* float(k)
F64Of(k) == F64OfRatio(k, 1)

\* -a
F64Neg(a) == IF IsNaN64(a) \/ IsZero64(a) THEN a ELSE [a EXCEPT !.s = 1 - a.s]

\* abs(a)
F64Abs(a) == [a EXCEPT !.s = 0]

\* the sum of two aligned mantissas with their signs
F64AddM(sa, ma, sb, mb, e) ==
    F64Round(IF sa = sb \/ ~NLess(ma, mb) THEN sa ELSE sb,
             IF sa = sb THEN NAdd(ma, mb)
             ELSE IF NLess(ma, mb) THEN NSub(mb, ma) ELSE NSub(ma, mb),
             e, FALSE)

\* the significand a enters a + b with: in full over the lower of the two
\* exponents, or, more than 64 binary places apart, the higher addend with
\* three places to spare and the lower as a single unit below them
F64Addend(a, b) ==
    IF a.e - b.e > 64 THEN NShl(a.m, 3)
    ELSE IF b.e - a.e > 64 THEN <<1>>
    ELSE NShl(a.m, a.e - Min(a.e, b.e))

\* the exponent the two significands of a + b are taken over
F64AddExp(a, b) ==
    IF a.e - b.e > 64 THEN a.e - 3
    ELSE IF b.e - a.e > 64 THEN b.e - 3
    ELSE Min(a.e, b.e)

\* a + b for finite a and b; an addend more than 64 binary places below the
\* other only decides the rounding
F64AddFinite(a, b) ==
    IF a.m = <<>> THEN b
    ELSE IF b.m = <<>> THEN a
    ELSE F64AddM(a.s, F64Addend(a, b), b.s, F64Addend(b, a), F64AddExp(a, b))

\* a + b: NaN absorbs, inf + -inf is NaN
F64Add(a, b) ==
    IF IsNaN64(a) \/ IsNaN64(b) THEN F64NaN
    ELSE IF IsInf64(a) THEN (IF IsInf64(b) /\ a.s # b.s THEN F64NaN ELSE a)
    ELSE IF IsInf64(b) THEN b
    ELSE F64AddFinite(a, b)

\* a - b
F64Sub(a, b) == F64Add(a, F64Neg(b))

\* a * b for finite a and b
F64MulFinite(a, b) ==
    IF a.m = <<>> \/ b.m = <<>> THEN F64Zero
    ELSE F64Round((a.s + b.s) % 2, NMul(a.m, b.m), a.e + b.e, FALSE)

\* a * b: NaN absorbs, inf * 0 is NaN
F64Mul(a, b) ==
    IF IsNaN64(a) \/ IsNaN64(b) THEN F64NaN
    ELSE IF IsInf64(a) \/ IsInf64(b)
    THEN (IF IsZero64(a) \/ IsZero64(b) THEN F64NaN ELSE F64Inf((a.s + b.s) % 2))
    ELSE F64MulFinite(a, b)

\* a / n for finite a and an integer 1 <= n <= Limb
F64DivIntFinite(a, n) ==
    IF a.m = <<>> THEN F64Zero ELSE F64Quot(a.s, NDivSmall(NShl(a.m, 28), n), a.e - 28)

\* a / n for a count n: NaN and the infinities stay what they are
F64DivInt(a, n) == IF IsFinite64(a) THEN F64DivIntFinite(a, n) ELSE a

\* the double of a quotient and its remainder
F64QuotN(s, res, e) == F64Round(s, res.q, e, res.r # <<>>)

\* a / b for finite a and b, b # 0
F64Div(a, b) ==
    IF a.m = <<>> THEN F64Zero
    ELSE F64QuotN((a.s + b.s) % 2, NDiv(NShl(a.m, 3), NShl(b.m, 3)), a.e - 56 - b.e)

\* the double of a root and its remainder
F64Root(res, e) == F64Round(0, res.root, e, res.rem # <<>>)

\* sqrt(a) for finite a >= 0
F64SqrtFinite(a) ==
    IF a.m = <<>> THEN F64Zero
    ELSE F64Root(NSqrt(NShl(a.m, 58 + (a.e % 2))), (a.e - 58 - (a.e % 2)) \div 2)

\* sqrt(a) for a >= 0: NaN and +inf stay what they are
F64Sqrt(a) == IF IsFinite64(a) THEN F64SqrtFinite(a) ELSE a

\* |a| < |b| for finite a and b other than zero
F64MagLess(a, b) == a.e < b.e \/ (a.e = b.e /\ NLess(a.m, b.m))

\* a < b for finite a and b
F64LessFinite(a, b) ==
    IF a.m = <<>> THEN b.m # <<>> /\ b.s = 0
    ELSE IF b.m = <<>> THEN a.s = 1
    ELSE IF a.s # b.s THEN a.s = 1
    ELSE IF a.s = 0 THEN F64MagLess(a, b) ELSE F64MagLess(b, a)

\* a < b: false whenever one of them is NaN
F64Less(a, b) ==
    IF IsNaN64(a) \/ IsNaN64(b) \/ a = b THEN FALSE
    ELSE IF IsInf64(a) THEN a.s = 1
    ELSE IF IsInf64(b) THEN b.s = 0
    ELSE F64LessFinite(a, b)

\* a <= b: false whenever one of them is NaN
F64LessEq(a, b) == ~IsNaN64(a) /\ ~IsNaN64(b) /\ ~F64Less(b, a)

\* Python's max(a, b): b when it is greater, a otherwise
F64Max(a, b) == IF F64Less(a, b) THEN b ELSE a

\* min(a, b): b when it is smaller, a otherwise
F64Min(a, b) == IF F64Less(b, a) THEN b ELSE a

\* np.clip(v, lo, hi)
F64Clip(v, lo, hi) == F64Min(F64Max(v, lo), hi)

\* floor(a) for finite 0 <= a < 2^31
F64Floor(a) ==
    IF a.m = <<>> THEN 0 ELSE NToInt(IF a.e >= 0 THEN NShl(a.m, a.e) ELSE NShr(a.m, -a.e))

\* half of h rounded up, with the sign s
F64FixedM(s, h) == IF s = 1 THEN -((h + 1) \div 2) ELSE (h + 1) \div 2

\* a * scale rounded to the nearest integer, halves away from zero (a finite)
F64Fixed(a, scale) ==
    IF a.m = <<>> THEN 0
    ELSE F64FixedM(a.s, NToInt(IF a.e + 1 >= 0 THEN NShl(NMulSmall(a.m, scale), a.e + 1)
                                ELSE NShr(NMulSmall(a.m, scale), -(a.e + 1))))

-----------------------------------------------------------------------------
(* Decimal readings and float64 *)

NaN == -1000000
PosInf == 2000000
NegInf == -2000000

\* float(v) of a reading in hundredths
Float64(v) ==
    IF v = NaN THEN F64NaN
    ELSE IF v = PosInf THEN F64Inf(0)
    ELSE IF v = NegInf THEN F64Inf(1)
    ELSE F64OfRatio(v, 100)

\* a float64 rounded to the hundredth, in hundredths
Hundredths(a) ==
    IF IsNaN64(a) THEN NaN
    ELSE IF IsInf64(a) THEN (IF a.s = 0 THEN PosInf ELSE NegInf)
    ELSE F64Fixed(a, 100)

\* np.array(rows, dtype=float) of rows in hundredths
Float64Window(w) ==
    NSeq([i \in 1..Len(w) |-> <<Float64(w[i][1]), Float64(w[i][2]), Float64(w[i][3])>>])

HundredthsSeq(f) == NSeq([i \in 1..Len(f) |-> Hundredths(f[i])])

HundredthsWindow(x) == NSeq([i \in 1..Len(x) |-> HundredthsSeq(x[i])])

-----------------------------------------------------------------------------
(* numpy over float64 arrays *)

RECURSIVE AddStrided(_, _, _, _, _)
\* res += a[i] for i = lo, lo + stride, ... up to hi; NaN stays NaN
AddStrided(a, lo, hi, stride, res) ==
    IF lo > hi \/ IsNaN64(res) THEN res
    ELSE AddStrided(a, lo + stride, hi, stride, F64Add(res, a[lo]))

RECURSIVE Combine8(_)
\* ((r[0] + r[1]) + (r[2] + r[3])) + ((r[4] + r[5]) + (r[6] + r[7])): the
\* eight sums added in neighbouring pairs, then the four, then the two
Combine8(r) ==
    IF Len(r) = 1 THEN r[1]
    ELSE Combine8(NSeq([i \in 1..(Len(r) \div 2) |-> F64Add(r[2 * i - 1], r[2 * i])]))

RECURSIVE pairwise_sum(_, _, _)
\* numpy's pairwise summation of the n elements of a after the first off:
\* in order below 8 elements; in eight running sums, combined in pairs, and
\* the remainder in order up to 128; in two halves beyond
pairwise_sum(a, off, n) ==
    IF n > 128
    THEN F64Add(pairwise_sum(a, off, (n \div 2) - ((n \div 2) % 8)),
                pairwise_sum(a, off + (n \div 2) - ((n \div 2) % 8),
                             n - ((n \div 2) - ((n \div 2) % 8))))
    ELSE AddStrided(a, IF n < 8 THEN off + 1 ELSE off + n - (n % 8) + 1, off + n, 1,
             IF n < 8 THEN F64Zero
             ELSE Combine8(NSeq([j \in 1..8 |->
                      AddStrided(a, off + j + 8, off + n - (n % 8), 8, a[off + j])])))

\* np.add.reduce(a): 0.0 for an empty array
NpSum(a) == IF Len(a) = 0 THEN F64Zero ELSE F64Add(F64Zero, pairwise_sum(a, 0, Len(a)))

\* a.mean(): the sum divided by the count, NaN for an empty array
NpMean(a) == IF Len(a) = 0 THEN F64NaN ELSE F64DivInt(NpSum(a), Len(a))

\* d * d
Square(d) == F64Mul(d, d)

\* (a - mean)**2, element by element
SqDevs(a, mean) == NSeq([i \in 1..Len(a) |-> Square(F64Sub(a[i], mean))])

\* sqrt(mean(abs(a - mean)**2)); a mean that is NaN leaves NaN
StdAbout(a, mean) == IF IsNaN64(mean) THEN F64NaN ELSE F64Sqrt(NpMean(SqDevs(a, mean)))

\* a.std(): sqrt(mean(abs(a - a.mean())**2)), ddof = 0; NaN for an empty array
NpStd(a) == IF Len(a) = 0 THEN F64NaN ELSE StdAbout(a, NpMean(a))

HasNaN(a) == \E i \in 1..Len(a) : IsNaN64(a[i])

\* a.min(): NaN when a holds one
NpMin(a) ==
    IF HasNaN(a) THEN F64NaN
    ELSE a[CHOOSE i \in 1..Len(a) : \A j \in 1..Len(a) : ~F64Less(a[j], a[i])]

\* a.max(): NaN when a holds one
NpMax(a) ==
    IF HasNaN(a) THEN F64NaN
    ELSE a[CHOOSE i \in 1..Len(a) : \A j \in 1..Len(a) : ~F64Less(a[i], a[j])]

\* np.sort(a)[k] for a without NaN, k from 0: at most k elements are below
\* it and more than k are not above it
Kth(a, k) ==
    a[CHOOSE i \in 1..Len(a) :
        /\ Cardinality({j \in 1..Len(a) : F64Less(a[j], a[i])}) <= k
        /\ k < Cardinality({j \in 1..Len(a) : F64LessEq(a[j], a[i])})]

\* numpy's _lerp: a + (b - a) * t, and b - (b - a) * (1 - t) where t >= 0.5
_lerp(a, b, t) ==
    IF F64LessEq(F64OfRatio(1, 2), t)
    THEN F64Sub(b, F64Mul(F64Sub(b, a), F64Sub(F64Of(1), t)))
    ELSE F64Add(a, F64Mul(F64Sub(b, a), t))

\* the linear quantile of a (n elements, no NaN) at the virtual index vi: the
\* two neighbours are the last element when vi is at the end
QuantileAt(a, n, vi) ==
    IF F64LessEq(F64Of(n - 1), vi)
    THEN _lerp(Kth(a, n - 1), Kth(a, n - 1), F64Add(vi, F64Of(1)))
    ELSE _lerp(Kth(a, F64Floor(vi)), Kth(a, F64Floor(vi) + 1),
               F64Sub(vi, F64Of(F64Floor(vi))))

\* np.percentile(a, q), method "linear": the virtual index is (n - 1) * (q / 100)
NpPercentile(a, q) ==
    IF HasNaN(a) THEN F64NaN
    ELSE QuantileAt(a, Len(a), F64Mul(F64Of(Len(a) - 1), F64OfRatio(q, 100)))

\* np.median(a): the mean of the middle element or of the middle two
NpMedian(a) ==
    IF HasNaN(a) THEN F64NaN
    ELSE IF Len(a) % 2 = 1 THEN NpMean(<<Kth(a, Len(a) \div 2)>>)
    ELSE NpMean(<<Kth(a, (Len(a) \div 2) - 1), Kth(a, Len(a) \div 2)>>)

\* seg[:, k] for k = 0, 1, 2
Column(seg, k) == NSeq([i \in 1..Len(seg) |-> seg[i][k + 1]])

\* np.linalg.norm(seg, axis=1): sqrt of the row sums of the squares
NpNorms(seg) ==
    NSeq([i \in 1..Len(seg) |->
        F64Sqrt(NpSum(<<Square(seg[i][1]), Square(seg[i][2]), Square(seg[i][3])>>))])

\* np.nan_to_num(feats, nan=0.0, posinf=0.0, neginf=0.0)
NanToNum(feats) ==
    NSeq([i \in 1..Len(feats) |-> IF IsFinite64(feats[i]) THEN feats[i] ELSE F64Zero])

-----------------------------------------------------------------------------
(* features.py *)

RECURSIVE Range(_, _, _)
\* list(range(start, stop, step)) for step # 0
Range(start, stop, step) ==
    IF (step > 0 /\ start >= stop) \/ (step < 0 /\ start <= stop) THEN <<>>
    ELSE <<start>> \o Range(start + step, stop, step)

\* window_indices with the stop of the range one short: range(0, n - win, step)
window_indices_short(n, win, step) ==
    LET starts == Range(0, n - win, step)
    IN  [k \in 1..Len(starts) |-> <<starts[k], starts[k] + win>>]

\* list(window_indices(n, win, step)) for step # 0: pairs (start, end)
window_indices(n, win, step) ==
    LET starts == Range(0, n - win + 1, step)
    IN  [k \in 1..Len(starts) |-> <<starts[k], starts[k] + win>>]

\* A[i:j] for 0 <= i <= j <= len(A)
Slice(A, i, j) == SubSeq(A, i + 1, j)

\* the six statistics of one axis: mean, std, min, max, median, IQR
AxisStats(a) ==
    <<NpMean(a), NpStd(a), NpMin(a), NpMax(a), NpMedian(a),
      F64Sub(NpPercentile(a, 75), NpPercentile(a, 25))>>

\* [float(mag.mean()), float(mag.std())]
MagStats(mag) == <<NpMean(mag), NpStd(mag)>>

\* extract_single_window(seg): the 20 features of one float64 window
extract_single_window(seg) ==
    NanToNum(AxisStats(Column(seg, 0)) \o AxisStats(Column(seg, 1))
             \o AxisStats(Column(seg, 2)) \o MagStats(NpNorms(seg)))

\* Rank of a label in numpy's sort order of the label strings
LabelOrder == <<"A", "B", "Light", "Moderate", "Sedentary", "Vigorous">>

Count(labs, l) == Cardinality({i \in 1..Len(labs) : labs[i] = l})

\* vals, cnts = np.unique(labs, return_counts=True): vals in sorted order
UniqueSorted(labs) ==
    LET present == {r \in 1..Len(LabelOrder) : \E i \in 1..Len(labs) : labs[i] = LabelOrder[r]}
        Nth[k \in 1..Cardinality(present)] ==
            CHOOSE r \in present : Cardinality({q \in present : q < r}) = k - 1
    IN  [k \in 1..Cardinality(present) |-> LabelOrder[Nth[k]]]

\* np.argmax(cnts): the first index holding the largest count (1-based here)
ArgMax(cnts) ==
    CHOOSE k \in 1..Len(cnts) :
        /\ \A m \in 1..Len(cnts) : cnts[m] <= cnts[k]
        /\ \A m \in 1..(k - 1) : cnts[m] < cnts[k]

\* the majority vote with the argmax forgotten: vals[0]
MajorityFirst(labs) == UniqueSorted(labs)[1]

\* majority = vals[np.argmax(cnts)]
Majority(labs) ==
    LET vals == UniqueSorted(labs)
        cnts == [k \in 1..Len(vals) |-> Count(labs, vals[k])]
    IN  vals[ArgMax(cnts)]

\* np.percentile(a, q, method="lower"): no interpolation
NpPercentileLower(a, q) ==
    IF HasNaN(a) THEN F64NaN ELSE Kth(a, ((Len(a) - 1) * q) \div 100)

AxisStatsLower(a) ==
    <<NpMean(a), NpStd(a), NpMin(a), NpMax(a), NpMedian(a),
      F64Sub(NpPercentileLower(a, 75), NpPercentileLower(a, 25))>>

\* the batch loop body with a percentile method other than the inference path's
BatchWindowFeaturesLower(seg) ==
    NanToNum(AxisStatsLower(Column(seg, 0)) \o AxisStatsLower(Column(seg, 1))
             \o AxisStatsLower(Column(seg, 2)) \o MagStats(NpNorms(seg)))

RECURSIVE AxisLoop(_, _, _)
\* for k in range(3): a = seg[:, k]; feats += [the six statistics of a]
AxisLoop(seg, k, feats) ==
    IF k = 3 THEN feats ELSE AxisLoop(seg, k + 1, feats \o AxisStats(Column(seg, k)))

\* the feature row extract_features builds in its loop body for one window
BatchWindowFeatures(seg) ==
    NanToNum(AxisLoop(seg, 0, <<>>) \o MagStats(NpNorms(seg)))

\* win = round(win_sec * fs)
WinLenRounded(fs, win_sec) == PyRound(win_sec * fs, 4)

\* win = int(win_sec * fs), with win_sec in quarters of a second
WinLen(fs, win_sec) == TruncDiv(win_sec * fs, 4)

\* step = int(win * (1 - overlap)), with overlap in quarters
StepLen(win, overlap) == TruncDiv(win * (4 - overlap), 4)

\* frame[["accel_x", "accel_y", "accel_z"]], in hundredths
Accel(frame) == [i \in 1..Len(frame) |-> <<frame[i].accel_x, frame[i].accel_y, frame[i].accel_z>>]

\* frame[label_col].to_numpy()
Labels(frame) == [i \in 1..Len(frame) |-> frame[i].met_class]

\* X: one feature row per window of the float64 array A, the floats recorded
\* to the hundredth
FeatureRows(A, idx) ==
    NSeq([k \in 1..Len(idx) |->
        HundredthsSeq(BatchWindowFeatures(Slice(A, idx[k][1], idx[k][2])))])

\* y: the majority label of every window
LabelRows(L, idx) == NSeq([k \in 1..Len(idx) |-> Majority(Slice(L, idx[k][1], idx[k][2]))])

\* the loop of extract_features over the windows idx, and np.vstack on its rows
ExtractWindows(frame, win, step, idx) ==
    IF idx = <<>>
    THEN [ok |-> FALSE, error |-> "ValueError: need at least one array to concatenate",
          win |-> win, step |-> step, windows |-> <<>>, X |-> <<>>, y |-> <<>>]
    ELSE [ok |-> TRUE, error |-> "",
          win |-> win, step |-> step, windows |-> idx,
          X |-> FeatureRows(Float64Window(Accel(frame)), idx),
          y |-> LabelRows(Labels(frame), idx)]

\* extract_features once win and step are known: range() raises on a zero step
ExtractWith(frame, win, step) ==
    IF step = 0
    THEN [ok |-> FALSE, error |-> "ValueError: range() arg 3 must not be zero",
          win |-> win, step |-> step, windows |-> <<>>, X |-> <<>>, y |-> <<>>]
    ELSE ExtractWindows(frame, win, step, NSeq(window_indices(Len(frame), win, step)))

\* extract_features(frame, fs, win_sec, overlap): X, y and the windows used,
\* or the ValueError raised by range() on a zero step or by np.vstack on no rows
extract_features(frame, fs, win_sec, overlap) ==
    ExtractWith(frame, WinLen(fs, win_sec), StepLen(WinLen(fs, win_sec), overlap))

-----------------------------------------------------------------------------
(* train.py *)

ModelNames == <<"RandomForest", "LogisticRegression", "SVM_RBF", "MLP_64x32">>

\* art_path = MODELS_DIR / f"{name}.pkl"
ArtifactPath(name) ==
    CASE name = "RandomForest" -> "models/RandomForest.pkl"
      [] name = "LogisticRegression" -> "models/LogisticRegression.pkl"
      [] name = "SVM_RBF" -> "models/SVM_RBF.pkl"
      [] name = "MLP_64x32" -> "models/MLP_64x32.pkl"

\* ART = SRC_DIR / "model.pkl", the path the service loads
CanonicalPath == "model.pkl"

\* the dict evaluate_model hands to joblib.dump
Payload(name, scaler, le, fs, win_sec, overlap) ==
    [model |-> name, scaler |-> scaler, label_encoder |-> le,
     fs |-> fs, win_sec |-> win_sec, overlap |-> overlap]

\* joblib.dump(payload, path): the file is created or overwritten
Dump(fs, path, payload) == (path :> payload) @@ fs

NoFiles == <<>>

\* le = LabelEncoder(); le.fit_transform(y): classes_ are the sorted labels
FitLabelEncoder(y) == [classes_ |-> UniqueSorted(y)]

\* StandardScaler().fit(Xtr): mean_ has one entry per feature column
FitScaler(X) == [n_mean |-> Len(X[1])]

\* cnts of y over le.classes_ (one count per class, in class order)
ClassCounts(y, classes) == [k \in 1..Len(classes) |-> Count(y, classes[k])]

\* the counts of the classes that have members
Present(counts) == {k \in 1..Len(counts) : counts[k] > 0}

\* ceil(0.2 * n): the test part of train_test_split(test_size=0.2)
TestSize(n) == (n + 4) \div 5

\* ceil(0.1 * n): the validation part MLPClassifier(validation_fraction=0.1) holds out
ValSize(n) == (n + 9) \div 10

\* train_test_split(..., test_size=n_test of n, stratify=y) raises ValueError:
\* an empty train part, a class with fewer than 2 members, or a part smaller
\* than the number of classes
SplitFails(counts, n_test) ==
    LET n == Sum(counts)
        K == Cardinality(Present(counts))
    IN  \/ n - n_test = 0
        \/ \E k \in Present(counts) : counts[k] < 2
        \/ n - n_test < K
        \/ n_test < K

\* the per-class sizes a stratified draw of n_draw out of counts can have:
\* each class gets its proportional share rounded down, and the draws left
\* over go to the classes with the largest remainders, ties at random
Allocations(counts, n_draw) ==
    LET n == Sum(counts)
        K == Len(counts)
        fl == [k \in 1..K |-> (counts[k] * n_draw) \div n]
        rem == [k \in 1..K |-> (counts[k] * n_draw) % n]
        need == n_draw - Sum(fl)
        picks == {S \in SUBSET (1..K) :
                    /\ Cardinality(S) = need
                    /\ \A i \in S, j \in (1..K) \ S : rem[i] >= rem[j]}
    IN  {[k \in 1..K |-> fl[k] + (IF k \in S THEN 1 ELSE 0)] : S \in picks}

\* model.fit(Xtr, ytr) raises ValueError: LogisticRegression and SVC need two
\* classes in ytr; MLPClassifier(early_stopping=True) splits ytr once more,
\* stratified when ytr has one or two classes (one output column) and plainly
\* when it has more, where only an empty train part fails; RandomForest fits
\* whatever it is given
FitFails(name, ytr) ==
    CASE name = "RandomForest" -> FALSE
      [] name = "LogisticRegression" -> Cardinality(Present(ytr)) < 2
      [] name = "SVM_RBF" -> Cardinality(Present(ytr)) < 2
      [] name = "MLP_64x32" ->
            IF Cardinality(Present(ytr)) <= 2
            THEN SplitFails(ytr, ValSize(Sum(ytr)))
            ELSE Sum(ytr) - ValSize(Sum(ytr)) = 0

\* the sets of classes model.predict(Xte) can return: classes seen in
\* training, no more of them than there are test rows
PredictedSets(ytr, yte) ==
    {P \in SUBSET Present(ytr) : P # {} /\ Cardinality(P) <= Sum(yte)}

\* classification_report(yte, ypred, target_names=labels_text) raises
\* ValueError when yte and ypred together hold fewer classes than labels_text
ReportFails(yte, P, labels_text) ==
    Cardinality(Present(yte) \cup P) # Len(labels_text)

TrIdle == [pc |-> "none"]

TrainStart(fs, win_sec, overlap, frame) ==
    [pc |-> "start", fs |-> fs, win_sec |-> win_sec, overlap |-> overlap,
     frame |-> frame, res |-> [ok |-> FALSE], le |-> [classes_ |-> <<>>],
     ytr |-> <<>>, yte |-> <<>>,
     scaler |-> [n_mean |-> 0], done |-> 0, error |-> ""]

\* the script once extract_features has returned res or raised its error
AfterExtract(res) ==
    [tr EXCEPT !.res = res,
               !.error = res.error,
               !.pc = IF res.ok THEN "extracted" ELSE "crashed"]

\* X, y = extract_features(df, fs=FS, win_sec=WIN_SEC, overlap=OVERLAP, ...)
ExtractFeaturesStep ==
    /\ tr.pc = "start"
    /\ tr' = AfterExtract(extract_features(tr.frame, tr.fs, tr.win_sec, tr.overlap))
    /\ UNCHANGED <<wi, files, svc, http>>

\* label encoding, stratified split and scaling
FitStep ==
    /\ tr.pc = "extracted"
    /\ LET le == FitLabelEncoder(tr.res.y)
           counts == ClassCounts(tr.res.y, le.classes_)
           n_test == TestSize(Len(tr.res.y))
       IN  IF SplitFails(counts, n_test)
           THEN tr' = [tr EXCEPT !.le = le,
                                 !.error = "ValueError: train_test_split",
                                 !.pc = "crashed"]
           ELSE \E t \in Allocations(counts, Len(tr.res.y) - n_test) :
                   tr' = [tr EXCEPT !.le = le,
                                    !.ytr = t,
                                    !.yte = [k \in 1..Len(counts) |-> counts[k] - t[k]],
                                    !.scaler = FitScaler(tr.res.X),
                                    !.pc = "fitted"]
    /\ UNCHANGED <<wi, files, svc, http>>

\* evaluate_model(name, ...) for the next model of the comparison loop: the
\* artifact is written only when the fit and the reports before it succeed
EvaluateModel ==
    /\ tr.pc = "fitted"
    /\ tr.done < Len(ModelNames)
    /\ LET name == ModelNames[tr.done + 1]
       IN  IF FitFails(name, tr.ytr)
           THEN /\ tr' = [tr EXCEPT !.error = "ValueError: model.fit", !.pc = "crashed"]
                /\ UNCHANGED files
           ELSE \E P \in PredictedSets(tr.ytr, tr.yte) :
                   IF ReportFails(tr.yte, P, tr.le.classes_)
                   THEN /\ tr' = [tr EXCEPT !.error = "ValueError: classification_report",
                                            !.pc = "crashed"]
                        /\ UNCHANGED files
                   ELSE /\ files' = Dump(files, ArtifactPath(name),
                                         Payload(name, tr.scaler, tr.le, tr.fs,
                                                 tr.win_sec, tr.overlap))
                        /\ tr' = [tr EXCEPT !.done = tr.done + 1]
    /\ UNCHANGED <<wi, svc, http>>

\* best_payload = joblib.load(best_artifact); joblib.dump(best_payload, ART)
SaveBest ==
    /\ tr.pc = "fitted"
    /\ tr.done = Len(ModelNames)
    /\ \E k \in 1..Len(ModelNames) :
          files' = Dump(files, CanonicalPath, files[ArtifactPath(ModelNames[k])])
    /\ tr' = [tr EXCEPT !.pc = "saved"]
    /\ UNCHANGED <<wi, svc, http>>

-----------------------------------------------------------------------------
(* backend/app/main.py *)

\* art.get(key, default)
Get(art, key, default) == IF key \in DOMAIN art THEN art[key] ELSE default

DefaultFs == 20
DefaultWinSec == 20
DefaultOverlap == 2

SvcDown == [up |-> FALSE]

\* the module-level statements that run when the service is imported
Load(art) ==
    LET FS == Get(art, "fs", DefaultFs)
        WIN_SEC == Get(art, "win_sec", DefaultWinSec)
    IN  [up |-> TRUE,
         MODEL |-> art["model"],
         SCALER |-> art["scaler"],
         LABELS |-> art["label_encoder"],
         FS |-> FS,
         WIN_SEC |-> WIN_SEC,
         OVERLAP |-> Get(art, "overlap", DefaultOverlap),
         N_FEATURES |-> Get(art, "n_features", art["scaler"].n_mean),
         CLASSES |-> Get(art, "classes", art["label_encoder"].classes_),
         WIN |-> TruncDiv(FS * WIN_SEC, 4)]

StartService ==
    /\ ~svc.up
    /\ CanonicalPath \in DOMAIN files
    /\ svc' = Load(files[CanonicalPath])
    /\ UNCHANGED <<wi, tr, files, http>>

\* x *= c
ScaleAll(x, c) ==
    NSeq([i \in 1..Len(x) |-> <<F64Mul(x[i][1], c), F64Mul(x[i][2], c), F64Mul(x[i][3], c)>>])

\* np.abs(x), flattened
AbsAll(x) ==
    NSeq([i \in 1..(3 * Len(x)) |-> F64Abs(x[((i - 1) \div 3) + 1][((i - 1) % 3) + 1])])

\* the literals of _calibrate_to_wisdm: in hundredths, the clip bounds in
\* thousandths
ZThresholdLo == 700
ZThresholdHi == 1200
Abs95Threshold == 500
LowMotionStd == 25
LowMotionTarget == 75
LowMotionClipHi == 2000
Gravity == 981
ZAlignBand == 300
ZAlignShift == 900
FlatStd == 30
FlatTarget == 100
FlatClipHi == 3000
ClipLo == 1000

\* 1e-6
StdFloor == F64Div(F64Of(1), F64Of(1000000))

\* 7.0 <= z_mean <= 12.0
ZMeanInBand(z_mean) ==
    F64LessEq(Float64(ZThresholdLo), z_mean) /\ F64LessEq(z_mean, Float64(ZThresholdHi))

\* looks_like_wisdm = (7.0 <= z_mean <= 12.0) or (abs95 > 5.0), with
\* z_mean = x[:, 2].mean() and abs95 = np.percentile(np.abs(x), 95)
LooksLikeWisdm(x) ==
    \/ ZMeanInBand(NpMean(Column(x, 2)))
    \/ F64Less(Float64(Abs95Threshold), NpPercentile(AbsAll(x), 95))

\* if std < limit: scale = target / max(std, 1e-6); x *= np.clip(scale, 1.0, hi)
BoostBelow(x, std, limit, target, hi) ==
    IF F64Less(std, limit)
    THEN ScaleAll(x, F64Clip(F64Div(target, F64Max(std, StdFloor)),
                             F64OfRatio(ClipLo, 1000), hi))
    ELSE x

\* the WISDM-like branch returning the window as it is
WisdmBranchNoFloor(x) == x

\* the branch taken when the window already looks like WISDM data: the
\* low-motion floor on mag = np.linalg.norm(x, axis=1)
WisdmBranch(x) ==
    BoostBelow(x, NpStd(NpNorms(x)), Float64(LowMotionStd), Float64(LowMotionTarget),
               F64OfRatio(LowMotionClipHi, 1000))

\* x[:, 2] += 9.0
ShiftZ(g) ==
    NSeq([i \in 1..Len(g) |-> <<g[i][1], g[i][2], F64Add(g[i][3], Float64(ZAlignShift))>>])

\* if -3.0 < z_mean < 3.0: x[:, 2] += 9.0
AlignZ(g, z_mean) ==
    IF F64Less(F64Neg(Float64(ZAlignBand)), z_mean) /\ F64Less(z_mean, Float64(ZAlignBand))
    THEN ShiftZ(g) ELSE g

\* the z baseline of the converted window g moved toward gravity
Aligned(g) == AlignZ(g, NpMean(Column(g, 2)))

\* x *= 9.81, then the z baseline moved toward 9 when the converted z mean is
\* strictly inside (-3, 3)
ConvertAndAlign(x) == Aligned(ScaleAll(x, Float64(Gravity)))

\* the Expo branch without the boost of flat windows
ExpoBranchNoBoost(x) == ConvertAndAlign(x)

\* the boost of a flat converted window g
FlatBoost(g) ==
    BoostBelow(g, NpStd(NpNorms(g)), Float64(FlatStd), Float64(FlatTarget),
               F64OfRatio(FlatClipHi, 1000))

\* the branch taken otherwise: the window is treated as Expo g-units
ExpoBranch(x) == FlatBoost(ConvertAndAlign(x))

\* _calibrate_to_wisdm(seg) on the float64 copy x of seg
_calibrate_to_wisdm(x) ==
    IF LooksLikeWisdm(x) THEN WisdmBranch(x) ELSE ExpoBranch(x)

\* arr[-WIN:, :]
LastRows(arr, w) == IF w = 0 THEN arr ELSE SubSeq(arr, Len(arr) - w + 1, Len(arr))

HttpIdle == [phase |-> "idle"]

\* a client posts a predict request
Receive(samples) ==
    /\ svc.up
    /\ http.phase = "idle"
    /\ http' = [phase |-> "pending", samples |-> samples]
    /\ UNCHANGED <<wi, tr, files, svc>>

\* the length test written n <= WIN
PredictTooFewOffByOne ==
    /\ http.phase = "pending"
    /\ Len(http.samples) <= svc.WIN
    /\ http' = [phase |-> "responded", samples |-> http.samples,
                status |-> 400,
                detail |-> [n |-> Len(http.samples), need |-> svc.WIN],
                met_class |-> "", calls |-> {},
                seg |-> <<>>, cal |-> <<>>, x |-> <<>>]
    /\ UNCHANGED <<wi, tr, files, svc>>

\* predict(req), the n < WIN branch: HTTPException(400)
PredictTooFew ==
    /\ http.phase = "pending"
    /\ Len(http.samples) < svc.WIN
    /\ http' = [phase |-> "responded", samples |-> http.samples,
                status |-> 400,
                detail |-> [n |-> Len(http.samples), need |-> svc.WIN],
                met_class |-> "", calls |-> {},
                seg |-> <<>>, cal |-> <<>>, x |-> <<>>]
    /\ UNCHANGED <<wi, tr, files, svc>>

\* predict(req) on an empty request that passes the length test (WIN = 0):
\* arr is one-dimensional and seg = arr[-WIN:, :] raises IndexError, which no
\* handler catches; the client gets 500 and nothing of the pipeline has run
PredictIndexError ==
    /\ http.phase = "pending"
    /\ Len(http.samples) >= svc.WIN
    /\ Len(http.samples) = 0
    /\ http' = [phase |-> "responded", samples |-> http.samples,
                status |-> 500,
                detail |-> [n |-> 0, need |-> svc.WIN],
                met_class |-> "", calls |-> {},
                seg |-> <<>>, cal |-> <<>>, x |-> <<>>]
    /\ UNCHANGED <<wi, tr, files, svc>>

\* predict(req) from the feature vector on: the N_FEATURES test, then scaler,
\* model and label; seg, cal and x are recorded in hundredths
Answer(seg, cal, x) ==
    IF Len(x) # svc.N_FEATURES
    THEN http' = [phase |-> "responded", samples |-> http.samples,
                  status |-> 500,
                  detail |-> [n |-> Len(x), need |-> svc.N_FEATURES],
                  met_class |-> "", calls |-> {"calibrate", "features"},
                  seg |-> seg, cal |-> cal, x |-> x]
    ELSE \E c \in 1..Len(svc.LABELS.classes_) :
         http' = [phase |-> "responded", samples |-> http.samples,
                  status |-> 200,
                  detail |-> [n |-> Len(http.samples), need |-> svc.WIN],
                  met_class |-> svc.LABELS.classes_[c],
                  calls |-> {"calibrate", "features", "scaler", "model"},
                  seg |-> seg, cal |-> cal, x |-> x]

\* x = extract_single_window(seg_cal), of the calibrated float64 window
Featurize(seg, seg_cal) ==
    Answer(seg, HundredthsWindow(seg_cal), HundredthsSeq(extract_single_window(seg_cal)))

\* seg_cal = _calibrate_to_wisdm(seg), of the float64 array of the samples
Calibrate(seg) ==
    \E seg_cal \in {_calibrate_to_wisdm(Float64Window(seg))} : Featurize(seg, seg_cal)

\* predict(req), from the last full window on
PredictWindow ==
    /\ http.phase = "pending"
    /\ Len(http.samples) >= svc.WIN
    /\ Len(http.samples) > 0
    /\ Calibrate(LastRows(http.samples, svc.WIN))
    /\ UNCHANGED <<wi, tr, files, svc>>

\* the response is delivered and the handler is free again
Respond ==
    /\ http.phase = "responded"
    /\ http' = HttpIdle
    /\ UNCHANGED <<wi, tr, files, svc>>

-----------------------------------------------------------------------------
(* Inputs *)

SeqsUpTo(S, n) == UNION {[1..k -> S] : k \in 0..n}

Repeat(v, n) == [i \in 1..n |-> v]

\* rows of the labelled frame: accelerations in hundredths of m/s^2, one row
\* with a missing reading and one with readings out of range
RowSet ==
    { [accel_x |-> 0, accel_y |-> 0, accel_z |-> 981, met_class |-> "Sedentary"],
      [accel_x |-> 100, accel_y |-> 400, accel_z |-> 800, met_class |-> "Light"],
      [accel_x |-> -200, accel_y |-> 300, accel_z |-> 600, met_class |-> "Moderate"],
      [accel_x |-> NaN, accel_y |-> 40, accel_z |-> 900, met_class |-> "Light"],
      [accel_x |-> NegInf, accel_y |-> PosInf, accel_z |-> 500, met_class |-> "Moderate"] }

RowA == [accel_x |-> 0, accel_y |-> 0, accel_z |-> 981, met_class |-> "A"]
RowB == [accel_x |-> 100, accel_y |-> 400, accel_z |-> 800, met_class |-> "B"]

\* nine rows labelled A A B, B B B, A B B
ScenarioFrame == <<RowA, RowA, RowB, RowB, RowB, RowB, RowA, RowB, RowB>>

RowSedentary == [accel_x |-> 0, accel_y |-> 0, accel_z |-> 981, met_class |-> "Sedentary"]
RowLight == [accel_x |-> 100, accel_y |-> 400, accel_z |-> 800, met_class |-> "Light"]

\* recordings long enough for the model comparison: i rows at rest, then walking
LongFrames == {Repeat(RowSedentary, i) \o Repeat(RowLight, LongRows - i) : i \in 0..LongRows}

RowModerate == [accel_x |-> -200, accel_y |-> 300, accel_z |-> 600, met_class |-> "Moderate"]

\* a recording of three classes, five rows each
ThreeClassFrame ==
    Repeat(RowSedentary, 5) \o Repeat(RowLight, 5) \o Repeat(RowModerate, 5)

\* three rows of small readings whose norms are not whole hundredths
SmallFrame ==
    << [accel_x |-> -5, accel_y |-> -7, accel_z |-> 13, met_class |-> "Light"],
       [accel_x |-> 2, accel_y |-> -1, accel_z |-> -13, met_class |-> "Light"],
       [accel_x |-> 7, accel_y |-> 7, accel_z |-> 7, met_class |-> "Light"] >>

Frames ==
    SeqsUpTo(RowSet, MaxRows) \cup {ScenarioFrame, ThreeClassFrame, SmallFrame}
        \cup LongFrames

\* (fs, win_sec) of a training run: fs in Hz, win_sec in quarters of a second;
\* <<20, 20>> is the shipped FS = 20.0, WIN_SEC = 5.0
TrainCfgs == { <<1, 3>>, <<1, 4>>, <<2, 3>>, <<2, 4>>, <<2, 7>>, <<1, 12>>, <<20, 20>> }

\* overlap in quarters; 2 is the shipped OVERLAP = 0.5
OverlapSet == {0, 1, 2, 3, 4}

\* samples of a request, in hundredths
SampleSet ==
    { <<0, 0, 981>>, <<300, 0, 901>>, <<0, 0, 100>>, <<0, 0, 0>>, <<0, 800, 1500>>,
      <<100, 0, -100>> }

FlatGravity == Repeat(<<0, 0, 981>>, 100)
FlatOneG == Repeat(<<0, 0, 100>>, 100)

\* twelve samples in g whose z mean, converted, is 3.000225
NearBand == Repeat(<<0, 0, 31>>, 11) \o << <<0, 0, 26>> >>

\* twelve samples in g swinging between +3 g and -3 g on z
WideSwing == Repeat(<<0, 0, 300>>, 6) \o Repeat(<<0, 0, -300>>, 6)

\* two samples in m/s^2 whose norms have a deviation of 0.2499995
NearFloor == << <<1, 0, 5001>>, <<0, 0, 5051>> >>

\* two samples in g whose norms, converted, have a deviation of 0.2999999
NearFlat == << <<26, 0, -382>>, <<0, 0, -389>> >>

\* two samples in m/s^2 whose norms 7.53 and 8.03 have a deviation of 0.25
AtFloor == << <<0, 0, 753>>, <<0, 0, 803>> >>

\* seven samples whose z readings have a mean of 7.00
BandLo ==
    << <<0, 0, 240>>, <<0, 0, -128>>, <<0, 0, -21>>, <<0, 0, 4614>>, <<0, 0, 1>>,
       <<0, 0, 165>>, <<0, 0, 29>> >>

\* seven samples whose z readings have a mean of 12.00
BandHi ==
    << <<0, 0, -26>>, <<0, 0, -34>>, <<0, 0, 8921>>, <<0, 0, -52>>, <<0, 0, -49>>,
       <<0, 0, -239>>, <<0, 0, -121>> >>

\* the readings of SmallFrame as a request
SmallWindow == << <<-5, -7, 13>>, <<2, -1, -13>>, <<7, 7, 7>> >>

Requests ==
    SeqsUpTo(SampleSet, MaxReq)
        \cup {FlatGravity, FlatOneG, NearBand, WideSwing, NearFloor, NearFlat,
              AtFloor, BandLo, BandHi, SmallWindow}

\* (fs, win_sec, model) of the artifacts the service is started from, the
\* model as an index of ModelNames
ServeCfgs ==
    { <<20, 20, 1>>, <<1, 48, 2>>, <<1, 28, 2>>, <<1, 12, 3>>, <<2, 5, 4>>, <<1, 3, 1>> }

MetClasses == [classes_ |-> <<"Light", "Moderate", "Sedentary", "Vigorous">>]

WiIdle == [done |-> TRUE, n |-> 0, win |-> 1, step |-> 1, out |-> <<>>]

-----------------------------------------------------------------------------
(* Specifications *)

\* window_indices applied to every (n, win, step) within the bounds
CallWindowIndices ==
    /\ ~wi.done
    /\ wi' = [wi EXCEPT !.out = window_indices(wi.n, wi.win, wi.step), !.done = TRUE]
    /\ UNCHANGED <<tr, files, svc, http>>

InitWindows ==
    /\ wi \in [done : {FALSE}, n : 0..MaxN, win : 1..MaxWin, step : 1..MaxStep, out : {<<>>}]
    /\ tr = TrIdle
    /\ files = NoFiles
    /\ svc = SvcDown
    /\ http = HttpIdle

NextWindows == CallWindowIndices

SpecWindows == InitWindows /\ [][NextWindows]_vars

\* the training script run on a frame under a configuration, then start-up
InitTrain ==
    /\ wi = WiIdle
    /\ \E c \in TrainCfgs, ov \in OverlapSet, frame \in Frames :
          tr = TrainStart(c[1], c[2], ov, frame)
    /\ files = NoFiles
    /\ svc = SvcDown
    /\ http = HttpIdle

NextTrain ==
    \/ ExtractFeaturesStep
    \/ FitStep
    \/ EvaluateModel
    \/ SaveBest
    \/ StartService

SpecTrain == InitTrain /\ [][NextTrain]_vars

\* the service started from a trained artifact, serving predict requests
InitServe ==
    /\ wi = WiIdle
    /\ tr = TrIdle
    /\ \E c \in ServeCfgs :
          /\ files = Dump(NoFiles, CanonicalPath,
                          Payload(ModelNames[c[3]], [n_mean |-> 20], MetClasses, c[1], c[2], 2))
          /\ svc = Load(files[CanonicalPath])
    /\ http = HttpIdle

NextServe ==
    \/ \E samples \in Requests : Receive(samples)
    \/ PredictTooFew
    \/ PredictIndexError
    \/ PredictWindow
    \/ Respond

SpecServe == InitServe /\ [][NextServe]_vars

Init == InitTrain \/ InitServe \/ InitWindows

Next == NextTrain \/ NextServe \/ NextWindows

Spec == Init /\ [][Next]_vars

-----------------------------------------------------------------------------
(* Properties *)

Extracted == tr.pc \notin {"none", "start"}
Responded == http.phase = "responded"

\* C1: for n >= 0, win > 0, step > 0 the pairs window_indices yields start at
\* 0, step, 2*step, ... in order, each with end - start = win and end <= n; the
\* last start is the largest multiple of step that fits; nothing is yielded
\* when n < win; and (23, 10, 5) yields exactly (0,10), (5,15), (10,20).
C1_WindowIndices ==
    wi.done =>
        /\ \A k \in 1..Len(wi.out) :
              /\ wi.out[k][1] = (k - 1) * wi.step
              /\ wi.out[k][2] - wi.out[k][1] = wi.win
              /\ wi.out[k][2] <= wi.n
        /\ Len(wi.out) * wi.step + wi.win > wi.n
        /\ (wi.n < wi.win <=> wi.out = <<>>)
        /\ (wi.n = 23 /\ wi.win = 10 /\ wi.step = 5
               => wi.out = << <<0, 10>>, <<5, 15>>, <<10, 20>> >>)

C1_Witness ==
    /\ wi.done
    /\ wi.n = 23 /\ wi.win = 10 /\ wi.step = 5
    /\ Len(wi.out) = 3

\* C2: the label extract_features gives a window occurs in the window's index
\* range at least as often as every other label of that range; the windows
\* labelled A A B, B B B, A B B get A, B, B.
C2_MajorityLabel ==
    Extracted /\ tr.res.ok =>
        /\ Len(tr.res.y) = Len(tr.res.windows)
        /\ \A k \in 1..Len(tr.res.windows) :
              LET labs == Slice(Labels(tr.frame), tr.res.windows[k][1], tr.res.windows[k][2])
              IN  /\ Count(labs, tr.res.y[k]) >= 1
                  /\ \A i \in 1..Len(labs) : Count(labs, labs[i]) <= Count(labs, tr.res.y[k])
        /\ (tr.frame = ScenarioFrame /\ tr.res.win = 3 /\ tr.res.step = 3
               => tr.res.y = <<"A", "B", "B">>)

C2_Witness ==
    /\ Extracted /\ tr.res.ok
    /\ tr.frame = ScenarioFrame /\ tr.res.win = 3 /\ tr.res.step = 3
    /\ tr.res.y = <<"A", "B", "B">>

\* What the slots of a feature row hold by the definitions of the statistics,
\* taken on the decimal readings in integer arithmetic.  A slot is recorded
\* to the hundredth, so it lies within half a hundredth of the statistic; a
\* statistic that is NaN or infinite leaves 0 in its slot.
RefSpecial(v) == v \in {NaN, PosInf, NegInf}

RefFinite(a) == \A i \in 1..Len(a) : ~RefSpecial(a[i])

RefHasNaN(a) == \E i \in 1..Len(a) : a[i] = NaN

\* the readings in ascending order, NegInf below and PosInf above the rest
RefSorted(a) ==
    LET n == Len(a)
        vals == {a[i] : i \in 1..n}
        below(v) == Cardinality({i \in 1..n : a[i] < v})
        upto(v) == Cardinality({i \in 1..n : a[i] <= v})
    IN  [k \in 1..n |-> CHOOSE v \in vals : below(v) < k /\ k <= upto(v)]

\* X is num / den to within a half
RefNear(X, num, den) == 2 * Abs(den * X - num) <= den

\* n^3 times the variance of a
RefSqDev(a) ==
    Sum([i \in 1..Len(a) |-> (Len(a) * a[i] - Sum(a)) * (Len(a) * a[i] - Sum(a))])

\* X >= 0 is sqrt(D / c) to within w halves
RefRoot(X, D, c, w) ==
    /\ X >= 0
    /\ (2 * X <= w \/ (2 * X - w) * (2 * X - w) * c <= 4 * D)
    /\ 4 * D <= (2 * X + w) * (2 * X + w) * c

RefMean(a, X) == IF RefFinite(a) THEN RefNear(X, Sum(a), Len(a)) ELSE X = 0

RefStd(a, X) ==
    IF RefFinite(a) THEN RefRoot(X, RefSqDev(a), Len(a) * Len(a) * Len(a), 1) ELSE X = 0

RefMin(a, X) ==
    IF RefHasNaN(a) \/ RefSpecial(RefSorted(a)[1]) THEN X = 0 ELSE X = RefSorted(a)[1]

RefMax(a, X) ==
    IF RefHasNaN(a) \/ RefSpecial(RefSorted(a)[Len(a)]) THEN X = 0
    ELSE X = RefSorted(a)[Len(a)]

\* the middle reading, or the mean of the middle two
RefMedian(a, X) ==
    LET s == RefSorted(a)
        lo == s[(Len(a) + 1) \div 2]
        hi == s[(Len(a) \div 2) + 1]
    IN  IF RefHasNaN(a) \/ RefSpecial(lo) \/ RefSpecial(hi) THEN X = 0
        ELSE RefNear(X, lo + hi, 2)

\* the ranks the q-th percentile lies between, and 100 times the percentile
RefLo(n, q) == (((n - 1) * q) \div 100) + 1
RefHi(n, q) == Min(RefLo(n, q) + 1, n)
RefPercentile100(s, q) ==
    100 * s[RefLo(Len(s), q)]
        + (((Len(s) - 1) * q) % 100) * (s[RefHi(Len(s), q)] - s[RefLo(Len(s), q)])

\* the 75th less the 25th percentile; an infinite reading at one of the
\* ranks leaves no finite difference
RefIQR(a, X) ==
    LET s == RefSorted(a)
        n == Len(a)
    IN  IF \/ RefHasNaN(a)
           \/ \E r \in {RefLo(n, 75), RefHi(n, 75), RefLo(n, 25), RefHi(n, 25)} : RefSpecial(s[r])
        THEN X = 0
        ELSE RefNear(X, RefPercentile100(s, 75) - RefPercentile100(s, 25), 100)

RefAxis(a, row, o) ==
    /\ RefMean(a, row[o + 1])
    /\ RefStd(a, row[o + 2])
    /\ RefMin(a, row[o + 3])
    /\ RefMax(a, row[o + 4])
    /\ RefMedian(a, row[o + 5])
    /\ RefIQR(a, row[o + 6])

RefRowsFinite(seg) == \A i \in 1..Len(seg) : RefFinite(seg[i])

\* the Euclidean norms of the rows, rounded down to the hundredth
RefFloorNorms(seg) ==
    [i \in 1..Len(seg) |->
        ISqrt28(seg[i][1] * seg[i][1] + seg[i][2] * seg[i][2] + seg[i][3] * seg[i][3])]

\* the mean of the norms lies less than one above the mean of the floors
RefMagMean(seg, X) ==
    IF RefRowsFinite(seg)
    THEN /\ 2 * Len(seg) * X >= 2 * Sum(RefFloorNorms(seg)) - Len(seg)
         /\ 2 * Len(seg) * X <= 2 * Sum(RefFloorNorms(seg)) + 3 * Len(seg)
    ELSE X = 0

\* the deviation of the norms lies within a half of the deviation of the floors
RefMagStd(seg, X) ==
    IF RefRowsFinite(seg)
    THEN RefRoot(X, RefSqDev(RefFloorNorms(seg)), Len(seg) * Len(seg) * Len(seg), 2)
    ELSE X = 0

\* per axis x, y, z: mean, std, min, max, median, IQR; then the mean and
\* the std of the magnitude
RefLayout(seg, row) ==
    /\ Len(row) = 20
    /\ \A k \in 0..2 : RefAxis(Column(seg, k), row, 6 * k)
    /\ RefMagMean(seg, row[19])
    /\ RefMagStd(seg, row[20])

\* the batch row and the single-window row are the same floats, and row is
\* their record
SameFloats(batch, single, row) == batch = single /\ row = HundredthsSeq(single)

C3Row(seg, row) ==
    /\ SameFloats(BatchWindowFeatures(Float64Window(seg)),
                  extract_single_window(Float64Window(seg)), row)
    /\ \A i \in 1..Len(row) : ~RefSpecial(row[i])
    /\ RefLayout(seg, row)

C4_RoundsToNearest ==
    /\ Extracted =>
          /\ tr.res.win = PyRound(tr.fs * tr.win_sec, 4)
          /\ tr.res.step = PyRound(tr.res.win * (4 - tr.overlap), 4)
    /\ svc.up => svc.WIN = PyRound(svc.FS * svc.WIN_SEC, 4)

\* C4 amended: win, step and the service's WIN are the products truncated
\* toward zero, and every window of training has exactly WIN rows.
C4_Truncates ==
    /\ Extracted =>
          /\ 4 * tr.res.win <= tr.fs * tr.win_sec
          /\ tr.fs * tr.win_sec < 4 * (tr.res.win + 1)
          /\ 4 * tr.res.step <= tr.res.win * (4 - tr.overlap)
          /\ tr.res.win * (4 - tr.overlap) < 4 * (tr.res.step + 1)
          /\ \A k \in 1..Len(tr.res.windows) :
                tr.res.windows[k][2] - tr.res.windows[k][1] = tr.res.win
    /\ svc.up /\ Extracted =>
          /\ 4 * svc.WIN <= svc.FS * svc.WIN_SEC
          /\ svc.FS * svc.WIN_SEC < 4 * (svc.WIN + 1)
          /\ svc.WIN = tr.res.win

C4_Witness ==
    /\ svc.up /\ Extracted /\ tr.res.ok
    /\ (tr.fs * tr.win_sec) % 4 # 0
    /\ svc.WIN # PyRound(svc.FS * svc.WIN_SEC, 4)
    /\ (tr.res.win * (4 - tr.overlap)) % 4 # 0
    /\ tr.res.step # PyRound(tr.res.win * (4 - tr.overlap), 4)

\* the z readings of a window have a mean between 7.00 and 12.00
RefZMeanInBand(seg) ==
    /\ ZThresholdLo * Len(seg) <= Sum(Column(seg, 2))
    /\ Sum(Column(seg, 2)) <= ZThresholdHi * Len(seg)

\* the largest less the smallest of a sequence of integers
RefSpread(f) ==
    (CHOOSE m \in {f[i] : i \in 1..Len(f)} : \A i \in 1..Len(f) : f[i] <= m)
        - (CHOOSE m \in {f[i] : i \in 1..Len(f)} : \A i \in 1..Len(f) : f[i] >= m)

\* the norms of the rows are whole hundredths
RefNormsWhole(seg) ==
    \A i \in 1..Len(seg) :
        RefFloorNorms(seg)[i] * RefFloorNorms(seg)[i]
            = seg[i][1] * seg[i][1] + seg[i][2] * seg[i][2] + seg[i][3] * seg[i][3]

\* the integers of f less the first of them
RefFromFirst(f) == [i \in 1..Len(f) |-> f[i] - f[1]]

\* n^2 times the variance of the integers of f
RefVariance(f) ==
    Len(f) * Sum([i \in 1..Len(f) |-> RefFromFirst(f)[i] * RefFromFirst(f)[i]])
        - Sum(RefFromFirst(f)) * Sum(RefFromFirst(f))

\* the norms of the rows deviate by at least t hundredths: decided on the
\* norms themselves where they are whole hundredths, and otherwise by their
\* spread alone, n numbers of range R deviating by at least R / sqrt(2 n) and
\* the range of the norms being more than the spread of their floors less one
RefStdAtLeast(seg, t) ==
    IF RefNormsWhole(seg)
    THEN RefVariance(RefFloorNorms(seg)) >= Len(seg) * Len(seg) * t * t
    ELSE /\ RefSpread(RefFloorNorms(seg)) >= 1
         /\ (RefSpread(RefFloorNorms(seg)) - 1) * (RefSpread(RefFloorNorms(seg)) - 1)
               >= 2 * Len(seg) * t * t

C6_FlatGravityUnchanged ==
    Responded /\ http.seg = FlatGravity => http.cal = FlatGravity

\* C6 amended: 100 samples of (0, 0, 9.81) come out of calibration doubled,
\* every sample (0, 0, 19.62): the low-motion floor applies with scale 2.0.
C6_FlatGravityDoubled ==
    Responded /\ http.seg = FlatGravity =>
        http.cal = Repeat(<<0, 0, 1962>>, 100)

C6_Witness ==
    /\ Responded /\ http.status = 200
    /\ http.seg = FlatGravity
    /\ http.cal[100] = <<0, 0, 1962>>

\* C7 as claimed: 100 samples of (0, 0, 1.0) are calibrated to z = 9.81 and
\* x = y = 0, with z-mean feature 9.81 and z-std feature 0.
C7_OneGBecomesGravity ==
    Responded /\ http.seg = FlatOneG =>
        /\ http.cal = Repeat(<<0, 0, 981>>, 100)
        /\ http.x[13] = 981
        /\ http.x[14] = 0

\* C7 amended: 100 samples of (0, 0, 1.0) are calibrated to z = 29.43
\* (9.81 times the flatness boost of 3.0) and x = y = 0, with z-mean feature
\* 29.43 and z-std feature 0.
C7_OneGBoosted ==
    Responded /\ http.seg = FlatOneG =>
        /\ http.cal = Repeat(<<0, 0, 2943>>, 100)
        /\ http.x[13] = 2943
        /\ http.x[14] = 0

C7_Witness ==
    /\ Responded /\ http.status = 200
    /\ http.seg = FlatOneG
    /\ http.cal[1] = <<0, 0, 2943>>
    /\ http.x[13] = 2943

\* C8: a request of n < WIN samples is answered 400 with n and WIN in the
\* detail and nothing of the pipeline invoked; a request of n >= WIN samples
\* is not answered 400.
C8_TooFewSamples ==
    Responded =>
        /\ Len(http.samples) < svc.WIN =>
              /\ http.status = 400
              /\ http.detail = [n |-> Len(http.samples), need |-> svc.WIN]
              /\ http.calls = {}
        /\ Len(http.samples) >= svc.WIN => http.status # 400

C8_Witness ==
    /\ Responded
    /\ Len(http.samples) >= 1
    /\ Len(http.samples) < svc.WIN
    /\ http.status = 400

ArtifactKeys ==
    {"model", "scaler", "label_encoder", "fs", "win_sec", "overlap", "n_features", "classes"}

\* C9: every artifact written by training carries the scaler, the label
\* encoder, the classifier, fs, win_sec, overlap, the feature count and the
\* class list.
C9_ArtifactComplete ==
    \A p \in DOMAIN files : ArtifactKeys \subseteq DOMAIN files[p]

\* C10: whenever win >= 1 and 0 <= overlap < 1, the step extract_features
\* hands to window_indices is at least 1 and the enumeration ends normally.
C10_StepPositive ==
    Extracted /\ tr.res.win >= 1 /\ tr.overlap >= 0 /\ tr.overlap < 4 =>
        /\ tr.res.step >= 1
        /\ tr.res.error # "ValueError: range() arg 3 must not be zero"

=============================================================================
